---- MODULE Spec2Model ----
(***************************************************************************)
(* Model of the minesweeper board engine of src/src/minefield.rs: a grid   *)
(* of tiles, lazy random mine/hint placement on the first handle_uncover,  *)
(* the two player actions handle_uncover and handle_mark, and the          *)
(* flood-uncover traversal.                                                *)
(***************************************************************************)
EXTENDS Integers, Sequences, FiniteSets, TLC

VARIABLES tiles, covered, params, placed, defeat, panicked

(* tiles .. defeat are the fields of Board; panicked names the method that *)
(* panicked on an index outside the tiles vector, "none" before that.      *)
vars == <<tiles, covered, params, placed, defeat, panicked>>

(* Bounds of the explored boards. *)
MaxWidth == 3
MaxHeight == 3
MaxMines == 1
MaxMarked == 1
(* Boards of at most this many tiles are explored with every mine count. *)
MaxDenseTiles == 6

Min(a, b) == IF a < b THEN a ELSE b

(* ---- enum Mark / Cover / Object ---- *)
Marks == {"Flag", "Unsure", "None"}
Up(mark) == <<"Up", mark>>
Down == <<"Down">>
Mine == <<"Mine">>
Hint(n) == <<"Hint", n>>
Blank == <<"Blank">>

(* Mark::cycle with the rotation reversed. *)
cycle_reversed(mark) ==
  CASE mark = "None" -> "Unsure"
    [] mark = "Unsure" -> "Flag"
    [] mark = "Flag" -> "None"

(* Mark::cycle *)
cycle(mark) ==
  CASE mark = "None" -> "Flag"
    [] mark = "Flag" -> "Unsure"
    [] mark = "Unsure" -> "None"

(* ---- impl Tile ---- *)
Tile_new == [cover |-> Up("None"), object |-> Blank]

is_uncoverable(t) == t.cover[1] = "Up" /\ t.cover[2] # "Flag"

is_mine(t) == t.object[1] = "Mine"

is_hint(t) == t.object[1] = "Hint"

(* ---- impl Board ---- *)
(* Board::new: the value of the struct after construction. *)
Board_new(p) ==
  LET size == p.width * p.height IN
  [tiles |-> [i \in 0..(size - 1) |-> Tile_new],
   covered |-> size,
   placed |-> FALSE,
   defeat |-> FALSE,
   params |-> p]

(* The struct Board as one value, for the operators below. *)
Self == [tiles |-> tiles, covered |-> covered, placed |-> placed,
         defeat |-> defeat, params |-> params]

coords_to_index(p, x, y) == y * p.width + x

tile(x, y) == tiles[coords_to_index(params, x, y)]

is_victory(b) == b.covered = b.params.mines

is_defeat(b) == b.defeat

offsets ==
  << <<-1, -1>>, <<-1, 0>>, <<-1, 1>>, <<0, -1>>,
     <<0, 1>>, <<1, -1>>, <<1, 0>>, <<1, 1>> >>

(* Board::neighbours with the lower bound of x tested strictly. *)
neighbours_strict(p, x, y) ==
  LET moved == [k \in 1..Len(offsets) |-> <<x + offsets[k][1], y + offsets[k][2]>>]
      inbounds(c) == /\ c[1] > 0 /\ c[1] < p.width
                     /\ c[2] >= 0 /\ c[2] < p.height
  IN SelectSeq(moved, inbounds)

(* Board::neighbours: the in-bounds neighbours, in the order of offsets. *)
neighbours(p, x, y) ==
  LET moved == [k \in 1..Len(offsets) |-> <<x + offsets[k][1], y + offsets[k][2]>>]
      inbounds(c) == /\ c[1] >= 0 /\ c[1] < p.width
                     /\ c[2] >= 0 /\ c[2] < p.height
  IN SelectSeq(moved, inbounds)

(* Iterator::choose_multiple: amount elements of the candidates, or all of *)
(* them when there are fewer; every such choice is possible.               *)
choose_multiple(cands, amount) ==
  {S \in SUBSET cands : Cardinality(S) = Min(amount, Cardinality(cands))}

(* The candidates without the skip filter. *)
mine_candidates_noskip(ts, skip) == 0..(Cardinality(DOMAIN ts) - 1)

(* The candidates with the index range one short. *)
mine_candidates_short(ts, skip) ==
  LET idx_range == 0..(Cardinality(DOMAIN ts) - 2)
  IN {i \in idx_range : i \notin skip}

(* Board::place_mines, the candidates the mines are chosen from. *)
mine_candidates(ts, skip) ==
  LET idx_range == 0..(Cardinality(DOMAIN ts) - 1)
  IN {i \in idx_range : i \notin skip}

(* Board::place_mines, given the indices choose_multiple returned. *)
place_mines(ts, mines) ==
  [i \in DOMAIN ts |-> IF i \in mines THEN [ts[i] EXCEPT !.object = Mine] ELSE ts[i]]

(* Board::place_hints *)
place_hints(ts, p) ==
  [idx \in DOMAIN ts |->
     LET x == idx % p.width
         y == idx \div p.width
         nb == neighbours(p, x, y)
         mine_count == Cardinality({k \in 1..Len(nb) :
                          is_mine(ts[coords_to_index(p, nb[k][1], nb[k][2])])})
     IN IF is_mine(ts[idx]) THEN ts[idx]
        ELSE IF mine_count > 0
             THEN [ts[idx] EXCEPT !.object = Hint(mine_count % 256)]
             ELSE ts[idx]]

(* The covered counter after one tile went Down. *)
decrement(b) ==
  IF b.covered > b.params.mines THEN [b EXCEPT !.covered = @ - 1] ELSE b

(* The while loop without the is_uncoverable/is_mine tests. *)
RECURSIVE flood_loop_unguarded(_, _, _)
flood_loop_unguarded(b, tile_pos, visited) ==
  IF tile_pos = <<>> THEN b
  ELSE
    LET t == Head(tile_pos)
        rest == Tail(tile_pos)
        t_idx == coords_to_index(b.params, t[1], t[2])
    IN IF t \in visited THEN flood_loop_unguarded(b, rest, visited)
       ELSE LET b1 == decrement([b EXCEPT !.tiles[t_idx].cover = Down])
                pushed == IF ~is_hint(b1.tiles[t_idx])
                          THEN neighbours(b1.params, t[1], t[2])
                          ELSE <<>>
            IN flood_loop_unguarded(b1, rest \o pushed, visited \cup {t})

(* The while loop without the visited test. *)
RECURSIVE flood_run_novisited(_, _, _, _)
flood_run_novisited(b, tile_pos, visited, processed) ==
  IF tile_pos = <<>>
  THEN [board |-> b, tile_pos |-> tile_pos, visited |-> visited,
        processed |-> processed]
  ELSE
    LET t == Head(tile_pos)
        rest == Tail(tile_pos)
        t_idx == coords_to_index(b.params, t[1], t[2])
    IN IF is_uncoverable(b.tiles[t_idx]) /\ ~is_mine(b.tiles[t_idx])
       THEN LET b1 == decrement([b EXCEPT !.tiles[t_idx].cover = Down])
                uncoverable(c) ==
                  is_uncoverable(b1.tiles[coords_to_index(b1.params, c[1], c[2])])
                pushed == IF ~is_hint(b1.tiles[t_idx])
                          THEN SelectSeq(neighbours(b1.params, t[1], t[2]), uncoverable)
                          ELSE <<>>
            IN flood_run_novisited(b1, rest \o pushed, visited \cup {t},
                                   Append(processed, t))
       ELSE flood_run_novisited(b, rest, visited \cup {t}, Append(processed, t))

(* Board::flood_uncover, the while loop: tile_pos is the queue, visited    *)
(* the set of coordinates already popped. The result is the board, the     *)
(* queue and the visited set when the loop ends, and processed, the        *)
(* coordinates that passed the visited test, in the order they were        *)
(* popped.                                                                 *)
RECURSIVE flood_run(_, _, _, _)
flood_run(b, tile_pos, visited, processed) ==
  IF tile_pos = <<>>
  THEN [board |-> b, tile_pos |-> tile_pos, visited |-> visited,
        processed |-> processed]
  ELSE
    LET t == Head(tile_pos)
        rest == Tail(tile_pos)
        t_idx == coords_to_index(b.params, t[1], t[2])
    IN IF t \in visited THEN flood_run(b, rest, visited, processed)
       ELSE IF is_uncoverable(b.tiles[t_idx]) /\ ~is_mine(b.tiles[t_idx])
       THEN LET b1 == decrement([b EXCEPT !.tiles[t_idx].cover = Down])
                uncoverable(c) ==
                  is_uncoverable(b1.tiles[coords_to_index(b1.params, c[1], c[2])])
                pushed == IF ~is_hint(b1.tiles[t_idx])
                          THEN SelectSeq(neighbours(b1.params, t[1], t[2]), uncoverable)
                          ELSE <<>>
            IN flood_run(b1, rest \o pushed, visited \cup {t}, Append(processed, t))
       ELSE flood_run(b, rest, visited \cup {t}, Append(processed, t))

(* The board the while loop leaves. *)
flood_loop(b, tile_pos, visited) == flood_run(b, tile_pos, visited, <<>>).board

(* Board::flood_uncover *)
flood_uncover(b, x, y) == flood_loop(b, << <<x, y>> >>, {})

(* Placement that forgets to set the placed flag. *)
place_unflagged(b, mines) ==
  IF ~b.placed
  THEN [b EXCEPT !.tiles = place_hints(place_mines(b.tiles, mines), b.params)]
  ELSE b

(* Board::handle_uncover, lines 163-167: placement on the first call. *)
place(b, mines) ==
  IF ~b.placed
  THEN [b EXCEPT !.placed = TRUE,
                 !.tiles = place_hints(place_mines(b.tiles, mines), b.params)]
  ELSE b

(* The match on the tile's cover without the Object::Mine arm. *)
uncover_nodefeat(b, x, y) ==
  LET tile_idx == coords_to_index(b.params, x, y)
      cover == b.tiles[tile_idx].cover
  IN IF cover = Down THEN b
     ELSE IF cover[2] = "Flag" THEN b
     ELSE LET b1 == decrement([b EXCEPT !.tiles[tile_idx].cover = Down])
          IN IF b1.tiles[tile_idx].object = Blank THEN flood_uncover(b1, x, y)
             ELSE b1

(* The match on the tile's cover with the Cover::Down arm treated like Up. *)
uncover_nodowncheck(b, x, y) ==
  LET tile_idx == coords_to_index(b.params, x, y)
      cover == b.tiles[tile_idx].cover
  IN IF cover = Up("Flag") THEN b
     ELSE LET b1 == decrement([b EXCEPT !.tiles[tile_idx].cover = Down])
          IN IF is_mine(b1.tiles[tile_idx]) THEN [b1 EXCEPT !.defeat = TRUE]
             ELSE IF b1.tiles[tile_idx].object = Blank THEN flood_uncover(b1, x, y)
             ELSE b1

(* Board::handle_uncover, lines 169-185: the match on the tile's cover. *)
uncover(b, x, y) ==
  LET tile_idx == coords_to_index(b.params, x, y)
      cover == b.tiles[tile_idx].cover
  IN IF cover = Down THEN b
     ELSE IF cover[2] = "Flag" THEN b
     ELSE LET b1 == decrement([b EXCEPT !.tiles[tile_idx].cover = Down])
          IN IF is_mine(b1.tiles[tile_idx]) THEN [b1 EXCEPT !.defeat = TRUE]
             ELSE IF b1.tiles[tile_idx].object = Blank THEN flood_uncover(b1, x, y)
             ELSE b1

(* Board::handle_uncover as a function of the board, the coordinates and   *)
(* the indices the random choice returns.                                  *)
handle_uncover(b, x, y, mines) ==
  uncover(place(b, mines), x, y)

(* handle_mark that marks an uncovered tile as if it were Up(None). *)
handle_mark_recover(b, x, y) ==
  LET tile_idx == coords_to_index(b.params, x, y)
      cover == b.tiles[tile_idx].cover
  IN IF cover[1] = "Up"
     THEN [b EXCEPT !.tiles[tile_idx].cover = Up(cycle(cover[2]))]
     ELSE [b EXCEPT !.tiles[tile_idx].cover = Up("Flag")]

(* handle_mark that counts as the first player action and sets placed. *)
handle_mark_placing(b, x, y) ==
  LET tile_idx == coords_to_index(b.params, x, y)
      cover == b.tiles[tile_idx].cover
  IN IF cover[1] = "Up"
     THEN [b EXCEPT !.tiles[tile_idx].cover = Up(cycle(cover[2])), !.placed = TRUE]
     ELSE [b EXCEPT !.placed = TRUE]

(* Board::handle_mark *)
handle_mark(b, x, y) ==
  LET tile_idx == coords_to_index(b.params, x, y)
      cover == b.tiles[tile_idx].cover
  IN IF cover[1] = "Up"
     THEN [b EXCEPT !.tiles[tile_idx].cover = Up(cycle(cover[2]))]
     ELSE b

(* ---- the state machine ---- *)
WriteBoard(b) ==
  /\ tiles' = b.tiles
  /\ covered' = b.covered
  /\ params' = b.params
  /\ placed' = b.placed
  /\ defeat' = b.defeat

(* A call that returns normally. *)
Write(b) == WriteBoard(b) /\ panicked' = panicked

(* The Params the boards are built from: all boards up to MaxWidth x       *)
(* MaxHeight with few mines, and the small boards with any number of mines *)
(* up to one more than the number of tiles (Board::new checks nothing).    *)
ParamsSet ==
  {q \in [width : 1..MaxWidth, height : 1..MaxHeight, mines : 0..MaxMines] :
     q.mines <= q.width * q.height + 1}
  \cup
  {q \in [width : 1..MaxDenseTiles, height : 1..MaxDenseTiles,
          mines : 0..(MaxDenseTiles + 1)] :
     q.width * q.height <= MaxDenseTiles /\ q.mines <= q.width * q.height + 1}

Init ==
  \E p \in ParamsSet :
    LET b == Board_new(p) IN
      /\ tiles = b.tiles
      /\ covered = b.covered
      /\ params = b.params
      /\ placed = b.placed
      /\ defeat = b.defeat
      /\ panicked = "none"

Xs == 0..(params.width - 1)
Ys == 0..(params.height - 1)

(* The choices thread_rng can make in this call (one dummy choice when the *)
(* board is already placed and place_mines is not called).                 *)
Choices(x, y) ==
  IF placed THEN {{}}
  ELSE choose_multiple(mine_candidates(tiles, {coords_to_index(params, x, y)}),
                       params.mines)

HandleUncover(x, y) ==
  \E mines \in Choices(x, y) : Write(handle_uncover(Self, x, y, mines))

Marked == {i \in DOMAIN tiles : tiles[i].cover \in {Up("Flag"), Up("Unsure")}}

HandleMark(x, y) ==
  /\ \/ tiles[coords_to_index(params, x, y)].cover # Up("None")
     \/ Cardinality(Marked) < MaxMarked
  /\ Write(handle_mark(Self, x, y))

Next ==
  \/ \E x \in Xs, y \in Ys : HandleUncover(x, y)
  \/ \E x \in Xs, y \in Ys : HandleMark(x, y)

Spec == Init /\ [][Next]_vars

(* ---- calls with coordinates outside dims() ---- *)
(* The coordinates one past the board in x or in y. *)
OutCoords ==
  {c \in (0..params.width) \X (0..params.height) :
     c[1] >= params.width \/ c[2] >= params.height}

(* self.tiles[index]: indexing the vector panics outside 0..len-1. *)
index_panics(b, index) == index \notin DOMAIN b.tiles

(* Board::tile: coords_to_index checks nothing, the only check is the one  *)
(* of the vector.                                                          *)
TileAt(x, y) ==
  /\ WriteBoard(Self)
  /\ panicked' = IF index_panics(Self, coords_to_index(params, x, y))
                 THEN "tile" ELSE panicked

(* Board::handle_uncover: placement (lines 163-167) runs before the first  *)
(* indexing of the vector (line 169).                                      *)
HandleUncoverAt(x, y) ==
  IF index_panics(Self, coords_to_index(params, x, y))
  THEN \E mines \in Choices(x, y) :
         WriteBoard(place(Self, mines)) /\ panicked' = "handle_uncover"
  ELSE HandleUncover(x, y)

(* Board::handle_mark: the indexing at line 194 comes first. *)
HandleMarkAt(x, y) ==
  IF index_panics(Self, coords_to_index(params, x, y))
  THEN WriteBoard(Self) /\ panicked' = "handle_mark"
  ELSE HandleMark(x, y)

(* Nothing is called after a panic. *)
NextOut ==
  \/ panicked = "none" /\ Next
  \/ panicked = "none" /\ \E c \in OutCoords : TileAt(c[1], c[2])
  \/ panicked = "none" /\ \E c \in OutCoords : HandleUncoverAt(c[1], c[2])
  \/ panicked = "none" /\ \E c \in OutCoords : HandleMarkAt(c[1], c[2])

SpecOut == Init /\ [][NextOut]_vars

(* ---- vocabulary of the properties ---- *)
Size == params.width * params.height

Idx == DOMAIN tiles

IsDown(i) == tiles[i].cover = Down

DownTiles == {i \in Idx : IsDown(i)}

MineTiles == {i \in Idx : tiles[i].object = Mine}

Abs(n) == IF n < 0 THEN -n ELSE n

(* Two distinct tiles that touch by a side or a corner. *)
Adjacent(i, j) ==
  /\ i # j
  /\ Abs((i % params.width) - (j % params.width)) <= 1
  /\ Abs((i \div params.width) - (j \div params.width)) <= 1

(* The tiles reachable from S through chains of adjacent Blank tiles. *)
RECURSIVE BlankClosure(_)
BlankClosure(S) ==
  LET T == S \cup {j \in Idx : /\ tiles[j].object = Blank
                               /\ \E i \in S : Adjacent(i, j)}
  IN IF T = S THEN S ELSE BlankClosure(T)

BlankRegion(i) == BlankClosure({i})

HintBorder(i) ==
  {j \in Idx : /\ tiles[j].object[1] = "Hint"
               /\ \E k \in BlankRegion(i) : Adjacent(k, j)}

RevealSet(i) == BlankRegion(i) \cup HintBorder(i)

(* C1: on a board with mines < width*height, is_victory() is true if and   *)
(* only if every non-mine tile is Down and no mine tile is Down.           *)
C1_VictoryIffAllSafeDown ==
  params.mines < Size =>
    (is_victory(Self) <=>
       /\ \A i \in Idx : tiles[i].object # Mine => IsDown(i)
       /\ \A i \in Idx : tiles[i].object = Mine => ~IsDown(i))

(* C2: after placement, handle_uncover(x, y) on a covered, unflagged Blank *)
(* tile turns Down every tile of its Blank region and every Hint tile      *)
(* adjacent to that region (none of them flagged), and nothing else.       *)
C2_FloodRevealsRegion ==
  [][\A x \in Xs, y \in Ys :
       LET i == coords_to_index(params, x, y) IN
       ( /\ placed
         /\ tiles[i].object = Blank
         /\ tiles[i].cover \in {Up("None"), Up("Unsure")}
         /\ \A j \in RevealSet(i) : tiles[j].cover # Up("Flag")
         /\ HandleUncover(x, y) )
       => /\ \A j \in RevealSet(i) : tiles'[j].cover = Down
          /\ \A j \in Idx \ RevealSet(i) : tiles'[j].cover = tiles[j].cover]_vars

(* C3: is_victory() and is_defeat() are never both true (stated for the    *)
(* boards with mines < width*height, where a first click can be safe).     *)
C3_NotVictoryAndDefeat ==
  params.mines < Size => ~(is_victory(Self) /\ is_defeat(Self))

(* C4: on a board with mines < width*height, the first tile that ever      *)
(* goes from Up to Down is not a Mine.                                     *)
C4_FirstDownNotMine ==
  [][( /\ params.mines < Size
       /\ DownTiles = {}
       /\ \E i \in Idx : tiles'[i].cover = Down )
     => \A i \in Idx : tiles'[i].cover = Down => tiles'[i].object # Mine]_vars

(* C5: handle_uncover(x, y) on a tile whose cover is Up(Flag) changes      *)
(* nothing: tiles, covered counter, placed flag, defeat and victory.       *)
C5_FlaggedUncoverNoOp ==
  [][\A x \in Xs, y \in Ys :
       (tile(x, y).cover = Up("Flag") /\ HandleUncover(x, y))
       => /\ tiles' = tiles
          /\ covered' = covered
          /\ placed' = placed
          /\ defeat' = defeat]_vars

(* C6: once is_victory() or is_defeat() is true, no handle_uncover call    *)
(* changes a cover, the covered counter, is_victory() or is_defeat()       *)
(* (stated for the boards with mines < width*height).                      *)
C6_WonLostTerminal ==
  [][( /\ params.mines < Size
       /\ is_victory(Self) \/ is_defeat(Self)
       /\ \E x \in Xs, y \in Ys : HandleUncover(x, y) )
     => /\ \A i \in Idx : tiles'[i].cover = tiles[i].cover
        /\ covered' = covered
        /\ defeat' = defeat
        /\ (covered' = params'.mines) = (covered = params.mines)]_vars

(* C7: on a board with mines < width*height the first handle_uncover(x, y) *)
(* leaves no mine at (x, y), and from then on the board stays placed and   *)
(* no tile's object changes, so (x, y) is not a Mine in any later state.   *)
C7_FirstClickNeverMine ==
  [][params.mines < Size =>
       /\ \A x \in Xs, y \in Ys :
            (~placed /\ HandleUncover(x, y))
            => placed' /\ tiles'[coords_to_index(params, x, y)].object # Mine
       /\ placed => /\ placed'
                    /\ \A i \in Idx : tiles'[i].object = tiles[i].object]_vars

C7_Witness ==
  /\ placed
  /\ params.mines = Size - 1
  /\ params.mines >= 2
  /\ \E i \in Idx : tiles[i].object # Mine /\ IsDown(i)

(* C8: is_defeat() is false at first, becomes true at exactly the call     *)
(* that turns a Mine tile Down, and is true ever after.                    *)
C8_DefeatIffMineUncovered ==
  /\ ~is_defeat(Self)
  /\ [][defeat' <=>
          \/ defeat
          \/ \E i \in Idx : /\ tiles'[i].object = Mine
                            /\ tiles[i].cover # Down
                            /\ tiles'[i].cover = Down]_vars

C8_Witness ==
  /\ defeat
  /\ \E i \in MineTiles : IsDown(i)
  /\ \E i \in MineTiles : ~IsDown(i)
  /\ \E i \in Idx \ MineTiles : IsDown(i)

(* C9: with mines <= width*height - 1, after placement exactly `mines`     *)
(* tiles have object Mine.                                                 *)
C9_ExactlyMinesPlaced ==
  (placed /\ params.mines <= Size - 1) => Cardinality(MineTiles) = params.mines

C9_Witness ==
  /\ placed
  /\ params.mines = Size - 1
  /\ Size >= 4
  /\ Cardinality(MineTiles) = params.mines

(* C10: after placement every non-mine tile is Hint(n), n the number of    *)
(* adjacent mine tiles, when n > 0, and Blank exactly when n = 0.          *)
C10_HintsCountMines ==
  placed =>
    \A i \in Idx \ MineTiles :
      LET n == Cardinality({j \in MineTiles : Adjacent(i, j)})
      IN IF n > 0 THEN tiles[i].object = Hint(n) ELSE tiles[i].object = Blank

C10_Witness ==
  /\ placed
  /\ \E i \in Idx : tiles[i].object = Hint(2)
  /\ \E i \in Idx : tiles[i].object = Hint(1)
  /\ \E i \in Idx : tiles[i].object = Blank

(* The mark that follows each mark in the documented rotation. *)
MarkOrder == [None |-> "Flag", Flag |-> "Unsure", Unsure |-> "None"]

(* C11: on a covered tile each handle_mark call moves the mark one step in *)
(* the order None -> Flag -> Unsure -> None, and three handle_mark calls   *)
(* on the same covered coordinate give back the board they started from.   *)
C11_MarkCycle ==
  /\ [](\A x \in Xs, y \in Ys :
          tile(x, y).cover[1] = "Up" =>
            handle_mark(handle_mark(handle_mark(Self, x, y), x, y), x, y) = Self)
  /\ [][\A x \in Xs, y \in Ys :
          tile(x, y).cover[1] = "Up" =>
            \/ tiles'[y * params.width + x].cover = Up(MarkOrder[tile(x, y).cover[2]])
            \/ ~HandleMark(x, y)]_vars

C11_Witness ==
  /\ placed
  /\ \E i \in Idx : tiles[i].cover = Up("Unsure")

(* C12: a board whose mine count leaves no room for placement is rejected  *)
(* by Board::new, so no board exists with that many mines (stated for      *)
(* mines >= width*height, where no first click can be kept free).          *)
C12_TooManyMinesRejected == params.mines < Size

(* C13: tile, handle_uncover and handle_mark called with x >= width or     *)
(* y >= height panic; none of them returns normally after touching some    *)
(* in-range tile.                                                          *)
C13_OutOfRangePanics ==
  [][\A c \in OutCoords :
       (TileAt(c[1], c[2]) \/ HandleUncoverAt(c[1], c[2]) \/ HandleMarkAt(c[1], c[2]))
       => panicked' # "none"]_vars

(* C14: mines <= covered <= width*height, and covered is the larger of the *)
(* mine count and the number of tiles that are not Down.                   *)
C14_CoveredCounter ==
  /\ params.mines <= covered
  /\ covered <= Size
  /\ covered = (IF params.mines > Size - Cardinality(DownTiles)
                THEN params.mines ELSE Size - Cardinality(DownTiles))

(* C15: a tile whose cover is Down is Down in every later state.           *)
C15_DownStaysDown ==
  [][\A i \in Idx : tiles[i].cover = Down => tiles'[i].cover = Down]_vars

C15_Witness ==
  /\ Cardinality(DownTiles) >= 2
  /\ \E i \in Idx : tiles[i].cover = Up("Flag")

(* C16: placement happens at most once, in the first handle_uncover call   *)
(* and while no tile is Down; every handle_uncover call leaves the board   *)
(* placed, and once placed no step changes a tile's object.                *)
C16_PlacementOnce ==
  /\ [](~placed => /\ DownTiles = {}
                   /\ \A i \in Idx : tiles[i].object = Blank)
  /\ [][/\ placed' \/ ~(\E x \in Xs, y \in Ys : HandleUncover(x, y))
        /\ placed => placed'
        /\ (placed \/ ~placed') => \A i \in Idx : tiles'[i].object = tiles[i].object]_vars

C16_Witness ==
  /\ placed
  /\ MineTiles # {}
  /\ Cardinality(DownTiles) >= 2
  /\ \E i \in Idx : tiles[i].cover = Up("Unsure")

(* C17: handle_uncover(x, y) and handle_mark(x, y) on a tile whose cover   *)
(* is Down leave the whole board unchanged.                                *)
C17_DownTileInert ==
  \A x \in Xs, y \in Ys :
    tile(x, y).cover = Down =>
      /\ \A mines \in Choices(x, y) : handle_uncover(Self, x, y, mines) = Self
      /\ handle_mark(Self, x, y) = Self

C17_Witness ==
  /\ placed
  /\ DownTiles # {}
  /\ covered > params.mines
  /\ \E i \in Idx : tiles[i].cover = Up("None")

(* C18: a handle_uncover(x, y) call turns Down no tile other than (x, y)   *)
(* that is a Mine or is flagged, and defeat becomes true only when the     *)
(* tile (x, y) itself is a Mine that the call turns Down: every step is    *)
(* either of that kind or is not a handle_uncover(x, y) step.              *)
C18_OnlyTargetCanBeMine ==
  [][\A x \in Xs, y \in Ys :
       LET i == y * params.width + x IN
       \/ /\ \A j \in Idx \ {i} :
                (tiles[j].cover # Down /\ tiles'[j].cover = Down)
                => tiles'[j].object # Mine /\ tiles[j].cover # Up("Flag")
          /\ (~defeat /\ defeat')
             => /\ tiles'[i].object = Mine
                /\ tiles[i].cover # Down
                /\ tiles'[i].cover = Down
       \/ ~HandleUncover(x, y)]_vars

C18_Witness ==
  /\ MineTiles # {}
  /\ \E i \in DownTiles :
       /\ tiles[i].object = Blank
       /\ \E j \in Idx : Adjacent(i, j) /\ tiles[j].cover = Up("Flag")

(* C19: handle_mark(x, y) changes at most the mark of tile (x, y): the     *)
(* other tiles, every object, the covered counter, placed, defeat (and so  *)
(* is_victory) stay as they are, also before the first handle_uncover:     *)
(* every step is either of that kind or is not a handle_mark(x, y) step.   *)
C19_MarkFrame ==
  [][\A x \in Xs, y \in Ys :
       LET i == y * params.width + x IN
       \/ /\ covered' = covered
          /\ params' = params
          /\ placed' = placed
          /\ defeat' = defeat
          /\ \A j \in Idx : tiles'[j].object = tiles[j].object
          /\ \A j \in Idx \ {i} : tiles'[j].cover = tiles[j].cover
          /\ tiles'[i].cover[1] = tiles[i].cover[1]
       \/ ~HandleMark(x, y)]_vars

C19_Witness ==
  /\ ~placed
  /\ \E i \in Idx : tiles[i].cover = Up("Unsure")

(* A flood_uncover run started at (x, y) on the current board. *)
FloodRunAt(x, y) == flood_run(Self, << <<x, y>> >>, {}, <<>>)

(* C20: a flood-uncover run, started at any coordinate of any reachable    *)
(* board, ends with an empty queue, processes no coordinate twice, and     *)
(* processes and uncovers at most width*height tiles.                      *)
C20_FloodRunBounded ==
  \A x \in Xs, y \in Ys :
    LET r == FloodRunAt(x, y)
        newly == {i \in Idx : r.board.tiles[i].cover = Down /\ tiles[i].cover # Down}
    IN /\ r.tile_pos = <<>>
       /\ \A k, l \in 1..Len(r.processed) : r.processed[k] = r.processed[l] => k = l
       /\ Len(r.processed) <= Size
       /\ Cardinality(newly) <= Size

C20_Witness ==
  /\ placed
  /\ DownTiles # {}
  /\ \E x \in Xs, y \in Ys : Len(FloodRunAt(x, y).processed) >= 4

====
